---- MODULE Spec2Model ----
(***************************************************************************)
(* A model of liquibase_script_convertor.py: the SQL INSERT to Liquibase   *)
(* XML / CSV converter.                                                    *)
(*                                                                         *)
(* Text is a sequence of lexical units.  A unit is a one-character string, *)
(* except the two keyword literals the extractor's pattern matches         *)
(* verbatim, "INSERT INTO" and "VALUES", which are one unit each.          *)
(***************************************************************************)
EXTENDS Integers, Sequences, FiniteSets, TLC

VARIABLES
    \* ---- LiquibaseConverter.convert ----
    script,             \* how the input file was authored (ghost: the source rows)
    input_file,         \* content of self.input_file
    output_csv_file,    \* TRUE iff a CSV output path was given
    pc,                 \* position of convert()
    sql_content,        \* result of _read_sql_file
    insert_statements,  \* result of _extract_insert_statements
    xml_content,        \* the <insert> blocks of _generate_xml_content
    xml_file,           \* what the run wrote to output_xml_file
    csv_data,           \* the row dictionaries of _generate_csv_file
    csv_file,           \* what the run wrote to output_csv_file
    \* ---- _parse_values_row, one character at a time ----
    row, pos, current, in_quote, values_list, result, column_xml, ppc,
    \* ---- escape_xml_chars, one replacement at a time ----
    text, escaped, rep_idx, decoded, epc

convVars  == <<script, input_file, output_csv_file, pc, sql_content,
               insert_statements, xml_content, xml_file, csv_data, csv_file>>
parseVars == <<row, pos, current, in_quote, values_list, result, column_xml, ppc>>
escVars   == <<text, escaped, rep_idx, decoded, epc>>
vars      == <<convVars, parseVars, escVars>>

(***************************************************************************)
(* Bounds of the model                                                     *)
(***************************************************************************)
MaxStmts    == 2    \* statements in an input script
MaxRowFrags == 4    \* fragments in a value tuple handed to the row parser
MaxEscFrags == 3    \* fragments in a text handed to escape_xml_chars

(***************************************************************************)
(* Sequence helpers (Python str methods on sequences of units)             *)
(***************************************************************************)
KW_INSERT == "INSERT INTO"
KW_VALUES == "VALUES"

Space == {" ", "\n", "\t"}

Min(a, b) == IF a <= b THEN a ELSE b

\* the units of s at the indices i with keep[i], in order
RECURSIVE Compact(_, _, _, _)
Compact(s, keep, lo, hi) ==
    IF lo > hi THEN <<>>
    ELSE IF lo = hi THEN (IF keep[lo] THEN <<s[lo]>> ELSE <<>>)
    ELSE LET mid == (lo + hi) \div 2
         IN  Compact(s, keep, lo, mid) \o Compact(s, keep, mid + 1, hi)

\* str.lstrip(S), str.rstrip(S)
LStrip(s, S) ==
    LET k == CHOOSE n \in 1..(Len(s) + 1) :
                 /\ n = Len(s) + 1 \/ s[n] \notin S
                 /\ \A j \in 1..(n - 1) : s[j] \in S
    IN  SubSeq(s, k, Len(s))

RStrip(s, S) ==
    LET k == CHOOSE n \in 0..Len(s) :
                 /\ n = 0 \/ s[n] \notin S
                 /\ \A j \in (n + 1)..Len(s) : s[j] \in S
    IN  SubSeq(s, 1, k)

\* str.strip(): whitespace off both ends
Strip(s) == RStrip(LStrip(s, Space), Space)

\* str.strip("'"): every leading and trailing single quote
StripQuoteChars(s) == RStrip(LStrip(s, {"'"}), {"'"})

RECURSIVE FlattenRange(_, _, _)
FlattenRange(ss, lo, hi) ==
    IF lo > hi THEN <<>>
    ELSE IF lo = hi THEN ss[lo]
    ELSE LET mid == (lo + hi) \div 2
         IN  FlattenRange(ss, lo, mid) \o FlattenRange(ss, mid + 1, hi)

\* ''.join(ss)
Flatten(ss) == FlattenRange(ss, 1, Len(ss))

RECURSIVE Join(_, _)
Join(ss, sep) ==
    IF ss = <<>> THEN <<>>
    ELSE IF Len(ss) = 1 THEN ss[1]
    ELSE ss[1] \o sep \o Join(Tail(ss), sep)

\* str.replace(old, new) for a one-character old
Replace(s, old, new) ==
    Flatten([i \in 1..Len(s) |-> IF s[i] = old THEN new ELSE <<s[i]>>])

\* str.split(sep) for a one-character sep
RECURSIVE Split(_, _)
Split(s, sep) ==
    IF \E i \in 1..Len(s) : s[i] = sep
    THEN LET i == CHOOSE k \in 1..Len(s) :
                     s[k] = sep /\ \A j \in 1..(k - 1) : s[j] # sep
         IN  <<SubSeq(s, 1, i - 1)>> \o Split(SubSeq(s, i + 1, Len(s)), sep)
    ELSE <<s>>

\* str.upper() on the letters the model uses
UpperChar(c) ==
    CASE c = "n" -> "N"
      [] c = "u" -> "U"
      [] c = "l" -> "L"
      [] c = "a" -> "A"
      [] c = "b" -> "B"
      [] c = "x" -> "X"
      [] c = "y" -> "Y"
      [] OTHER   -> c
Upper(s) == [i \in 1..Len(s) |-> UpperChar(s[i])]

NULL_TEXT == <<"N", "U", "L", "L">>

\* zip(a, b): pairs up to the shorter length
Zip(a, b) == [i \in 1..Min(Len(a), Len(b)) |-> <<a[i], b[i]>>]

\* the sequences of length 0..n over S
SeqUpTo(S, n) == UNION {[1..k -> S] : k \in 0..n}

(***************************************************************************)
(* escape_xml_chars                                                        *)
(***************************************************************************)
AMP  == <<"&", "a", "m", "p", ";">>
LT   == <<"&", "l", "t", ";">>
GT   == <<"&", "g", "t", ";">>
QUOT == <<"&", "q", "u", "o", "t", ";">>
APOS == <<"&", "a", "p", "o", "s", ";">>

\* a plausible slip: the ampersand replaced last
replacements_amp_last ==
    << <<"<", LT>>, <<">", GT>>, <<"\"", QUOT>>, <<"'", APOS>>, <<"&", AMP>> >>

\* the dict literal, in insertion order
replacements ==
    << <<"&", AMP>>, <<"<", LT>>, <<">", GT>>, <<"\"", QUOT>>, <<"'", APOS>> >>

\* one turn of "for old, new in replacements.items()"
EscapeReplace(t, k) == Replace(t, replacements[k][1], replacements[k][2])

RECURSIVE EscapeFrom(_, _)
EscapeFrom(t, k) ==
    IF k > Len(replacements) THEN t ELSE EscapeFrom(EscapeReplace(t, k), k + 1)

escape_xml_chars(t) == EscapeFrom(t, 1)

\* What an XML parser reads back from an attribute value: one left-to-right
\* pass that turns each of the five predefined entities into its character.
Entities == {AMP, LT, GT, QUOT, APOS}
EntityChar(e) ==
    CASE e = AMP  -> "&"
      [] e = LT   -> "<"
      [] e = GT   -> ">"
      [] e = QUOT -> "\""
      [] e = APOS -> "'"

StartsWith(s, i, e) == i + Len(e) - 1 <= Len(s) /\ SubSeq(s, i, i + Len(e) - 1) = e
EntityAt(s, i) == {e \in Entities : StartsWith(s, i, e)}

RECURSIVE XmlDecodeFrom(_, _)
XmlDecodeFrom(s, i) ==
    IF i > Len(s) THEN <<>>
    ELSE IF EntityAt(s, i) # {}
         THEN LET e == CHOOSE x \in EntityAt(s, i) : TRUE
              IN  <<EntityChar(e)>> \o XmlDecodeFrom(s, i + Len(e))
         ELSE <<s[i]>> \o XmlDecodeFrom(s, i + 1)

XmlDecode(s) == XmlDecodeFrom(s, 1)

(***************************************************************************)
(* _parse_values_row                                                       *)
(***************************************************************************)
\* a plausible slip: the comma branch without "and not in_quote"
ParseCharSplitsInQuote(st, char) ==
    IF char = "'" /\ (st.current = <<>> \/ st.current[Len(st.current)] # "\\")
    THEN [st EXCEPT !.in_quote = ~st.in_quote, !.current = Append(st.current, char)]
    ELSE IF char = ","
         THEN [st EXCEPT !.values_list = Append(st.values_list, Strip(st.current)),
                         !.current = <<>>]
         ELSE [st EXCEPT !.current = Append(st.current, char)]

\* the body of "for char in row"
ParseChar(st, char) ==
    IF char = "'" /\ (st.current = <<>> \/ st.current[Len(st.current)] # "\\")
    THEN [st EXCEPT !.in_quote = ~st.in_quote, !.current = Append(st.current, char)]
    ELSE IF char = "," /\ ~st.in_quote
         THEN [st EXCEPT !.values_list = Append(st.values_list, Strip(st.current)),
                         !.current = <<>>]
         ELSE [st EXCEPT !.current = Append(st.current, char)]

ParseStart == [values_list |-> <<>>, current |-> <<>>, in_quote |-> FALSE]

\* "if current: values_list.append(''.join(current).strip())"
ParseFlush(st) ==
    IF st.current # <<>>
    THEN Append(st.values_list, Strip(st.current))
    ELSE st.values_list

\* "return [val.strip().strip("'") for val in values_list]"
ParseReturn(vl) == [i \in 1..Len(vl) |-> StripQuoteChars(Strip(vl[i]))]

RECURSIVE ParseLoop(_, _, _)
ParseLoop(st, r, i) ==
    IF i > Len(r) THEN st ELSE ParseLoop(ParseChar(st, r[i]), r, i + 1)

_parse_values_row(r) == ParseReturn(ParseFlush(ParseLoop(ParseStart, r, 1)))

(***************************************************************************)
(* _generate_column_xml                                                    *)
(***************************************************************************)
\* a plausible slip: the comparison without .upper()
ColumnXmlCaseSensitive(column, value) ==
    IF value = NULL_TEXT
    THEN [name |-> column, has_value |-> FALSE, value |-> <<>>]
    ELSE [name |-> column, has_value |-> TRUE, value |-> escape_xml_chars(value)]

_generate_column_xml(column, value) ==
    IF Upper(value) = NULL_TEXT
    THEN [name |-> column, has_value |-> FALSE, value |-> <<>>]
    ELSE [name |-> column, has_value |-> TRUE, value |-> escape_xml_chars(value)]

(***************************************************************************)
(* clean_sql_content                                                       *)
(***************************************************************************)
\* re.sub(r'--.*$', '', content, flags=re.MULTILINE): a unit is removed iff a
\* "--" starts at or before it on its line
InComment(s, i) ==
    \E j \in 1..i :
        /\ j + 1 <= Len(s) /\ s[j] = "-" /\ s[j + 1] = "-"
        /\ \A n \in j..i : s[n] # "\n"

RemoveComments(s) ==
    Compact(s, [i \in 1..Len(s) |-> ~InComment(s, i)], 1, Len(s))

\* re.sub(r'\s+', ' ', content): each run of whitespace becomes one space
CollapseSpace(s) ==
    Compact([i \in 1..Len(s) |-> IF s[i] \in Space THEN " " ELSE s[i]],
            [i \in 1..Len(s) |-> s[i] \notin Space \/ i = 1 \/ s[i - 1] \notin Space],
            1, Len(s))

clean_sql_content(content) == Strip(CollapseSpace(RemoveComments(content)))

(***************************************************************************)
(* _extract_insert_statements:                                             *)
(*   re.findall(r"INSERT INTO ([\w_.]+)\s*\((.*?)\)\s*VALUES\s*(.*?);")    *)
(***************************************************************************)
\* [\w_.] : the keyword VALUES is made of word characters too
IdentChar(c) ==
    c \in {"a", "b", "s", "t", "u", "x", "y", "1", "2", "A", "B",
           "N", "U", "L", "n", "l", "_", ".", KW_VALUES}

\* the first index >= i whose unit is not in the class (Len(s) + 1 if none)
SkipIdent(s, i) ==
    CHOOSE k \in i..(Len(s) + 1) :
        /\ k = Len(s) + 1 \/ ~IdentChar(s[k])
        /\ \A j \in i..(k - 1) : IdentChar(s[j])

SkipSpace(s, i) ==
    CHOOSE k \in i..(Len(s) + 1) :
        /\ k = Len(s) + 1 \/ s[k] \notin Space
        /\ \A j \in i..(k - 1) : s[j] \in Space

\* the first index >= i holding unit c (0 if none)
IndexFrom(s, c, i) ==
    IF \E k \in i..Len(s) : s[k] = c
    THEN CHOOSE k \in i..Len(s) : s[k] = c /\ \A j \in i..(k - 1) : s[j] # c
    ELSE 0

\* s[p] is a ")" followed by \s*VALUES
ClosesColumns(s, p) ==
    /\ s[p] = ")"
    /\ SkipSpace(s, p + 1) <= Len(s)
    /\ s[SkipSpace(s, p + 1)] = KW_VALUES

\* the first index p >= i that closes the columns (0 if none): where the
\* non-greedy column group (.*?) stops
ColumnsEnd(s, i) ==
    IF \E p \in i..Len(s) : ClosesColumns(s, p)
    THEN CHOOSE p \in i..Len(s) :
             ClosesColumns(s, p) /\ \A j \in i..(p - 1) : ~ClosesColumns(s, j)
    ELSE 0

NoMatch == [ok |-> FALSE]

\* the match of the pattern that starts at index i, if there is one
MatchAt(s, i) ==
    IF ~(i + 1 <= Len(s) /\ s[i] = KW_INSERT /\ s[i + 1] = " ") THEN NoMatch
    ELSE LET j == SkipIdent(s, i + 2)      \* ([\w_.]+) is greedy
             k == SkipSpace(s, j)          \* \s*
         IN  IF j = i + 2 \/ k > Len(s) \/ s[k] # "(" THEN NoMatch
             ELSE LET p == ColumnsEnd(s, k + 1)
                  IN  IF p = 0 THEN NoMatch
                      ELSE LET q    == SkipSpace(s, p + 1)       \* at VALUES
                               r    == SkipSpace(s, q + 1)       \* \s*
                               semi == IndexFrom(s, ";", r)      \* (.*?);
                           IN  IF semi = 0 THEN NoMatch
                               ELSE [ok         |-> TRUE,
                                     table_name |-> SubSeq(s, i + 2, j - 1),
                                     columns    |-> SubSeq(s, k + 1, p - 1),
                                     values     |-> SubSeq(s, r, semi - 1),
                                     end        |-> semi + 1]

\* findall: leftmost matches that do not overlap; a match can only start at
\* an INSERT INTO
RECURSIVE FindStatements(_, _)
FindStatements(s, i) ==
    LET n == IndexFrom(s, KW_INSERT, i)
    IN  IF n = 0 THEN <<>>
        ELSE LET m == MatchAt(s, n)
             IN  IF m.ok
                 THEN <<[table_name |-> m.table_name, columns |-> m.columns,
                         values |-> m.values]>> \o FindStatements(s, m.end)
                 ELSE FindStatements(s, n + 1)

_extract_insert_statements(content) == FindStatements(content, 1)

\* re.findall(r"\((.*?)\)", values): from each "(" to the first ")" after it
RECURSIVE FindRows(_, _)
FindRows(s, i) ==
    LET a == IndexFrom(s, "(", i)
        b == IF a = 0 THEN 0 ELSE IndexFrom(s, ")", a + 1)
    IN  IF a = 0 \/ b = 0 THEN <<>>
        ELSE <<SubSeq(s, a + 1, b - 1)>> \o FindRows(s, b + 1)

Rows(values) == FindRows(values, 1)

(***************************************************************************)
(* _generate_xml_content                                                   *)
(***************************************************************************)
\* table_name.split('.')[-1]
LastComponent(table_name) ==
    LET parts == Split(table_name, ".") IN parts[Len(parts)]

\* [col.strip() for col in columns.split(",")]
ColumnsList(columns) ==
    LET parts == Split(columns, ",") IN [i \in 1..Len(parts) |-> Strip(parts[i])]

\* one <insert tableName="..."> block, for one row
InsertXml(table_name, columns_list, r) ==
    LET pairs == Zip(columns_list, _parse_values_row(r))
    IN  [tableName |-> table_name,
         columns   |-> [i \in 1..Len(pairs) |->
                           _generate_column_xml(pairs[i][1], pairs[i][2])]]

StatementXml(st) ==
    LET rows == Rows(st.values)
    IN  [i \in 1..Len(rows) |->
            InsertXml(LastComponent(st.table_name), ColumnsList(st.columns), rows[i])]

_generate_xml_content(stmts) ==
    Flatten([n \in 1..Len(stmts) |-> StatementXml(stmts[n])])

(***************************************************************************)
(* _generate_csv_file                                                      *)
(***************************************************************************)
\* row_dict[col] = v : a dict keeps a key's first position and last value
DictKeys(d) == [i \in 1..Len(d) |-> d[i][1]]
DictHas(d, k) == \E i \in 1..Len(d) : d[i][1] = k
DictGet(d, k, default) ==
    IF DictHas(d, k)
    THEN d[CHOOSE i \in 1..Len(d) : d[i][1] = k][2]
    ELSE default
DictSet(d, k, v) ==
    IF DictHas(d, k)
    THEN [i \in 1..Len(d) |-> IF d[i][1] = k THEN <<k, v>> ELSE d[i]]
    ELSE Append(d, <<k, v>>)

RECURSIVE DictFromPairs(_, _)
DictFromPairs(d, pairs) ==
    IF pairs = <<>> THEN d
    ELSE DictFromPairs(DictSet(d, pairs[1][1], pairs[1][2]), Tail(pairs))

\* "val if val.upper() != "NULL" else """
CsvValue(val) == IF Upper(val) # NULL_TEXT THEN val ELSE <<>>

RowDict(columns_list, r) ==
    LET pairs == Zip(columns_list, _parse_values_row(r))
    IN  DictFromPairs(<<>>, [i \in 1..Len(pairs) |->
                                <<pairs[i][1], CsvValue(pairs[i][2])>>])

StatementDicts(st) ==
    LET rows == Rows(st.values)
    IN  [i \in 1..Len(rows) |-> RowDict(ColumnsList(st.columns), rows[i])]

CsvData(stmts) == Flatten([n \in 1..Len(stmts) |-> StatementDicts(stmts[n])])

\* a plausible slip: the file opened whatever csv_data holds
CsvAlwaysWritten(data) == TRUE

\* "if csv_data:"
CsvIsWritten(data) == data # <<>>

\* csv.DictWriter(csvfile, fieldnames=headers), extrasaction left at 'raise':
\* a row with a key outside fieldnames raises ValueError
HasExtraField(headers, d) ==
    \E i \in 1..Len(d) : \A h \in 1..Len(headers) : headers[h] # d[i][1]

\* DictWriter._dict_to_list, restval left at ''
DictToList(headers, d) == [h \in 1..Len(headers) |-> DictGet(d, headers[h], <<>>)]

\* writer.writerows(csv_data): the records written before the first row that
\* raises, and whether one did
RECURSIVE WriteRows(_, _)
WriteRows(headers, data) ==
    IF data = <<>> THEN [records |-> <<>>, raised |-> FALSE]
    ELSE IF HasExtraField(headers, Head(data))
         THEN [records |-> <<>>, raised |-> TRUE]
         ELSE LET rest == WriteRows(headers, Tail(data))
              IN  [records |-> <<DictToList(headers, Head(data))>> \o rest.records,
                   raised  |-> rest.raised]

(***************************************************************************)
(* The input scripts: how a script is authored, and the text it makes      *)
(***************************************************************************)
\* a value of a tuple: a bare token, or a single-quoted string with content t
Bare(t)   == [quoted |-> FALSE, t |-> t]
Quoted(t) == [quoted |-> TRUE, t |-> t]

F_one   == Bare(<<"1">>)
F_two   == Bare(<<"2">>)
F_null  == Bare(NULL_TEXT)
F_str   == Quoted(<<"A", "&", "B">>)
F_comma == Quoted(<<"x", ",", " ", "y">>)
F_close == Quoted(<<"x", ")">>)
F_semi  == Quoted(<<"x", ";", "y">>)
F_open  == Quoted(<<"(", "x">>)

\* the VALUES blocks: each a sequence of tuples
TupleLists ==
    { << <<F_one, F_str>>, <<F_two, F_null>> >>,   \* two rows, a NULL
      << <<F_one>> >>,                             \* one value
      << <<F_comma, F_one>> >>,                    \* a comma in a string
      << <<F_close, F_one>> >>,                    \* a ")" in a string
      << <<F_one, F_semi>> >>,                     \* a ";" in a string
      << <<F_open, F_one>>, <<F_two>> >> }         \* a "(" in a string

\* the tables, each with its declared columns
TableDefs ==
    { [table |-> <<"t">>,           columns |-> << <<"a">>, <<"b">> >>],
      [table |-> <<"s", ".", "u">>, columns |-> << <<"a">> >>] }

\* terminated = FALSE: the statement lacks its trailing ";"
Statements ==
    { [table |-> d.table, columns |-> d.columns, tuples |-> tl, terminated |-> tm] :
        d \in TableDefs, tl \in TupleLists, tm \in BOOLEAN }

Scripts == SeqUpTo(Statements, MaxStmts)

RenderField(f) == IF f.quoted THEN <<"'">> \o f.t \o <<"'">> ELSE f.t
RenderTuple(tp) ==
    <<"(">> \o Join([i \in 1..Len(tp) |-> RenderField(tp[i])], <<",", " ">>) \o <<")">>
RenderStatement(st) ==
    <<KW_INSERT, " ">> \o st.table \o <<" ", "(">> \o Join(st.columns, <<",", " ">>)
      \o <<")", " ", KW_VALUES, " ">>
      \o Join([i \in 1..Len(st.tuples) |-> RenderTuple(st.tuples[i])], <<",", " ">>)
      \o (IF st.terminated THEN <<";">> ELSE <<>>)

\* a comment line, then one statement per line
RenderScript(sc) ==
    <<"-", "-", " ", "s", ";", "\n">>
      \o Join([i \in 1..Len(sc) |-> RenderStatement(sc[i])], <<"\n">>)

(***************************************************************************)
(* LiquibaseConverter.convert, statement by statement                      *)
(***************************************************************************)
Absent == [written |-> FALSE]

InitConvert ==
    /\ script \in Scripts
    /\ input_file = RenderScript(script)
    /\ output_csv_file \in BOOLEAN
    /\ pc = "start"
    /\ sql_content = <<>>
    /\ insert_statements = <<>>
    /\ xml_content = <<>>
    /\ xml_file = Absent
    /\ csv_data = <<>>
    /\ csv_file = Absent

\* line 46, _read_sql_file
ReadSqlFile ==
    /\ pc = "start"
    /\ sql_content' = clean_sql_content(input_file)
    /\ pc' = "read"
    /\ UNCHANGED <<script, input_file, output_csv_file, insert_statements,
                   xml_content, xml_file, csv_data, csv_file>>

\* a plausible slip: the output opened for writing before the input is read
ReadFailsOutputOpened ==
    /\ pc = "start"
    /\ xml_file' = [written |-> TRUE, inserts |-> <<>>]
    /\ pc' = "failed_read"
    /\ UNCHANGED <<script, input_file, output_csv_file, sql_content,
                   insert_statements, xml_content, csv_data, csv_file>>

\* line 59: open() or read() raises (no such file, not UTF-8)
ReadFails ==
    /\ pc = "start"
    /\ pc' = "failed_read"
    /\ UNCHANGED <<script, input_file, output_csv_file, sql_content,
                   insert_statements, xml_content, xml_file, csv_data, csv_file>>

\* line 47
ExtractInsertStatements ==
    /\ pc = "read"
    /\ insert_statements' = _extract_insert_statements(sql_content)
    /\ pc' = "extracted"
    /\ UNCHANGED <<script, input_file, output_csv_file, sql_content,
                   xml_content, xml_file, csv_data, csv_file>>

\* line 50
GenerateXmlContent ==
    /\ pc = "extracted"
    /\ xml_content' = _generate_xml_content(insert_statements)
    /\ pc' = "xml_generated"
    /\ UNCHANGED <<script, input_file, output_csv_file, sql_content,
                   insert_statements, xml_file, csv_data, csv_file>>

\* lines 51 and 54: the XML file is written, then the CSV path is looked at
WriteOutputFile ==
    /\ pc = "xml_generated"
    /\ xml_file' = [written |-> TRUE, inserts |-> xml_content]
    /\ pc' = IF output_csv_file THEN "xml_written" ELSE "done"
    /\ UNCHANGED <<script, input_file, output_csv_file, sql_content,
                   insert_statements, xml_content, csv_data, csv_file>>

\* line 123: open(self.output_xml_file, "w") raises
WriteOutputFails ==
    /\ pc = "xml_generated"
    /\ pc' = "failed_xml_open"
    /\ UNCHANGED <<script, input_file, output_csv_file, sql_content,
                   insert_statements, xml_content, xml_file, csv_data, csv_file>>

\* lines 128-140
BuildCsvData ==
    /\ pc = "xml_written"
    /\ csv_data' = CsvData(insert_statements)
    /\ pc' = "csv_built"
    /\ UNCHANGED <<script, input_file, output_csv_file, sql_content,
                   insert_statements, xml_content, xml_file, csv_file>>

\* line 143 with csv_data empty: nothing is opened
SkipCsvFile ==
    /\ pc = "csv_built"
    /\ ~CsvIsWritten(csv_data)
    /\ pc' = "done"
    /\ UNCHANGED <<script, input_file, output_csv_file, sql_content,
                   insert_statements, xml_content, xml_file, csv_data, csv_file>>

\* lines 144-148: header, then the rows up to the first that raises
WriteCsvFile ==
    /\ pc = "csv_built"
    /\ CsvIsWritten(csv_data)
    /\ LET headers == IF csv_data = <<>> THEN <<>> ELSE DictKeys(csv_data[1])
           w       == WriteRows(headers, csv_data)
       IN  /\ csv_file' = [written |-> TRUE, header |-> headers, records |-> w.records]
           /\ pc' = IF w.raised THEN "failed_csv_write" ELSE "done"
    /\ UNCHANGED <<script, input_file, output_csv_file, sql_content,
                   insert_statements, xml_content, xml_file, csv_data>>

\* line 145: open(self.output_csv_file, 'w') raises
WriteCsvFails ==
    /\ pc = "csv_built"
    /\ CsvIsWritten(csv_data)
    /\ pc' = "failed_csv_open"
    /\ UNCHANGED <<script, input_file, output_csv_file, sql_content,
                   insert_statements, xml_content, xml_file, csv_data, csv_file>>

(***************************************************************************)
(* _parse_values_row and _generate_column_xml, one step at a time          *)
(***************************************************************************)
NULL_LOWER == <<"n", "u", "l", "l">>
NULL_MIXED == <<"N", "u", "l", "l">>

\* the pieces a tuple's inner text is put together from
RowFrags == { <<"'">>, <<",">>, <<" ">>, <<"\\">>, <<"a">>,
              NULL_TEXT, NULL_LOWER, NULL_MIXED }

RowTexts == {Flatten(fs) : fs \in SeqUpTo(RowFrags, MaxRowFrags)}

ParseIdle ==
    /\ row = <<>> /\ pos = 0 /\ current = <<>> /\ in_quote = FALSE
    /\ values_list = <<>> /\ result = <<>> /\ column_xml = <<>> /\ ppc = "idle"

\* lines 72-74
InitParse ==
    /\ row \in RowTexts
    /\ pos = 1
    /\ current = <<>>
    /\ in_quote = FALSE
    /\ values_list = <<>>
    /\ result = <<>>
    /\ column_xml = <<>>
    /\ ppc = "scan"

\* lines 76-84: one character of the row
ReadChar ==
    /\ ppc = "scan"
    /\ pos <= Len(row)
    /\ LET st == ParseChar([values_list |-> values_list, current |-> current,
                            in_quote |-> in_quote], row[pos])
       IN  /\ values_list' = st.values_list
           /\ current' = st.current
           /\ in_quote' = st.in_quote
    /\ pos' = pos + 1
    /\ UNCHANGED <<row, result, column_xml, ppc>>

\* lines 86-87: the last field
FlushLast ==
    /\ ppc = "scan"
    /\ pos > Len(row)
    /\ values_list' = ParseFlush([values_list |-> values_list, current |-> current,
                                  in_quote |-> in_quote])
    /\ ppc' = "flushed"
    /\ UNCHANGED <<row, pos, current, in_quote, result, column_xml>>

\* line 89
ReturnValues ==
    /\ ppc = "flushed"
    /\ result' = ParseReturn(values_list)
    /\ ppc' = "returned"
    /\ UNCHANGED <<row, pos, current, in_quote, values_list, column_xml>>

\* lines 110-111, every value under a column named c
GenerateColumns ==
    /\ ppc = "returned"
    /\ column_xml' = [i \in 1..Len(result) |-> _generate_column_xml(<<"c">>, result[i])]
    /\ ppc' = "columns"
    /\ UNCHANGED <<row, pos, current, in_quote, values_list, result>>

(***************************************************************************)
(* escape_xml_chars, one replacement at a time, and the XML read back      *)
(***************************************************************************)
EscFrags == { <<"&">>, <<"<">>, <<">">>, <<"\"">>, <<"'">>, <<"a">>,
              <<"a", "m", "p", ";">>, <<"l", "t", ";">> }

EscTexts == {Flatten(fs) : fs \in SeqUpTo(EscFrags, MaxEscFrags)}

EscapeIdle ==
    /\ text = <<>> /\ escaped = <<>> /\ rep_idx = 0 /\ decoded = <<>> /\ epc = "idle"

InitEscape ==
    /\ text \in EscTexts
    /\ escaped = text
    /\ rep_idx = 1
    /\ decoded = <<>>
    /\ epc = "replacing"

\* lines 22-23: one replacement
ReplaceNext ==
    /\ epc = "replacing"
    /\ rep_idx <= Len(replacements)
    /\ escaped' = EscapeReplace(escaped, rep_idx)
    /\ rep_idx' = rep_idx + 1
    /\ UNCHANGED <<text, decoded, epc>>

\* line 24
ReturnEscaped ==
    /\ epc = "replacing"
    /\ rep_idx > Len(replacements)
    /\ epc' = "escaped"
    /\ UNCHANGED <<text, escaped, rep_idx, decoded>>

\* the attribute value read back by an XML parser
ReadBack ==
    /\ epc = "escaped"
    /\ decoded' = XmlDecode(escaped)
    /\ epc' = "decoded"
    /\ UNCHANGED <<text, escaped, rep_idx>>

(***************************************************************************)
(* Specifications                                                          *)
(***************************************************************************)
ConvertIdle ==
    /\ script = <<>> /\ input_file = <<>> /\ output_csv_file = FALSE /\ pc = "idle"
    /\ sql_content = <<>> /\ insert_statements = <<>> /\ xml_content = <<>>
    /\ xml_file = Absent /\ csv_data = <<>> /\ csv_file = Absent

\* a conversion run
Init == InitConvert /\ ParseIdle /\ EscapeIdle
Next ==
    \/ ReadSqlFile /\ UNCHANGED <<parseVars, escVars>>
    \/ ReadFails /\ UNCHANGED <<parseVars, escVars>>
    \/ ExtractInsertStatements /\ UNCHANGED <<parseVars, escVars>>
    \/ GenerateXmlContent /\ UNCHANGED <<parseVars, escVars>>
    \/ WriteOutputFile /\ UNCHANGED <<parseVars, escVars>>
    \/ WriteOutputFails /\ UNCHANGED <<parseVars, escVars>>
    \/ BuildCsvData /\ UNCHANGED <<parseVars, escVars>>
    \/ SkipCsvFile /\ UNCHANGED <<parseVars, escVars>>
    \/ WriteCsvFile /\ UNCHANGED <<parseVars, escVars>>
    \/ WriteCsvFails /\ UNCHANGED <<parseVars, escVars>>
Spec == Init /\ [][Next]_vars

\* the row parser on its own
InitRow == ConvertIdle /\ InitParse /\ EscapeIdle
NextRow ==
    \/ ReadChar /\ UNCHANGED <<convVars, escVars>>
    \/ FlushLast /\ UNCHANGED <<convVars, escVars>>
    \/ ReturnValues /\ UNCHANGED <<convVars, escVars>>
    \/ GenerateColumns /\ UNCHANGED <<convVars, escVars>>
SpecRow == InitRow /\ [][NextRow]_vars

\* escape_xml_chars on its own
InitEsc == ConvertIdle /\ ParseIdle /\ InitEscape
NextEsc ==
    \/ ReplaceNext /\ UNCHANGED <<convVars, parseVars>>
    \/ ReturnEscaped /\ UNCHANGED <<convVars, parseVars>>
    \/ ReadBack /\ UNCHANGED <<convVars, parseVars>>
SpecEsc == InitEsc /\ [][NextEsc]_vars

(***************************************************************************)
(* Properties                                                              *)
(***************************************************************************)
XmlGenerated ==
    pc \in {"xml_generated", "xml_written", "csv_built", "done",
            "failed_xml_open", "failed_csv_open", "failed_csv_write"}

\* the <insert> blocks the source rows of a script call for: one per tuple, the
\* n-th declared column paired with the n-th value
ExpectedColumn(col, f) ==
    IF Upper(f.t) = NULL_TEXT
    THEN [name |-> col, has_value |-> FALSE, value |-> <<>>]
    ELSE [name |-> col, has_value |-> TRUE, value |-> escape_xml_chars(f.t)]

ExpectedInsert(st, tp) ==
    LET pairs == Zip(st.columns, tp)
    IN  [tableName |-> LastComponent(st.table),
         columns   |-> [i \in 1..Len(pairs) |-> ExpectedColumn(pairs[i][1], pairs[i][2])]]

ExpectedInserts(sc) ==
    Flatten([n \in 1..Len(sc) |->
                [i \in 1..Len(sc[n].tuples) |-> ExpectedInsert(sc[n], sc[n].tuples[i])]])

AllTerminated(sc) == \A n \in 1..Len(sc) : sc[n].terminated

\* C1: every matched INSERT statement with k value tuples yields exactly k
\* <insert> blocks, in source order, the i-th pairing the n-th declared column
\* with the n-th value of the i-th tuple, whatever the tuples contain
\* (strings with "(", ")" or ";" included).
C1_OneInsertPerTuple ==
    (XmlGenerated /\ AllTerminated(script)) => xml_content = ExpectedInserts(script)

\* C2: a well-formed single-row insert with n declared columns and one tuple
\* of n values yields one <insert> block with n <column> elements.
C2_ColumnCountIsDeclared ==
    (/\ XmlGenerated
     /\ Len(script) = 1
     /\ script[1].terminated
     /\ Len(script[1].tuples) = 1
     /\ Len(script[1].tuples[1]) = Len(script[1].columns))
    => (/\ Len(xml_content) = 1
        /\ Len(xml_content[1].columns) = Len(script[1].columns))

\* C3: in the row parser a comma read while in_quote is true never ends the
\* current field (it is kept in it), and a field is ended inside the loop only
\* by a comma read while in_quote is false.
C3_CommaInQuoteStaysInField ==
    [][ (ppc = "scan" /\ pos <= Len(row)) =>
          /\ (row[pos] = "," /\ in_quote) =>
                (values_list' = values_list /\ current' = Append(current, ","))
          /\ (row[pos] = "," /\ ~in_quote) =>
                (values_list' = Append(values_list, Strip(current)) /\ current' = <<>>)
          /\ (values_list' # values_list) => (row[pos] = "," /\ ~in_quote) ]_vars

C3_Witness ==
    /\ ppc = "scan" /\ pos > 1 /\ row[pos - 1] = ","
    /\ in_quote /\ values_list = <<>>
    /\ current # <<>> /\ current[Len(current)] = ","

\* the strings that have no ")" or ";" inside a quoted value
PlainField(f) == \A i \in 1..Len(f.t) : f.t[i] \notin {"(", ")", ";"}
PlainScript(sc) ==
    \A n \in 1..Len(sc) : \A i \in 1..Len(sc[n].tuples) :
        \A k \in 1..Len(sc[n].tuples[i]) : PlainField(sc[n].tuples[i][k])

Unterminated(sc) == {n \in 1..Len(sc) : ~sc[n].terminated}
IsTerminated(st) == st.terminated

\* C4: in a multi-statement script in which one statement lacks its trailing
\* ";", wherever it stands, that statement contributes no <insert> block and
\* every well-formed statement yields exactly its own blocks.  (Stated on the
\* scripts whose strings hold no "(", ")" or ";".)
C4_MalformedStatementSkipped ==
    (/\ XmlGenerated
     /\ Len(script) >= 2
     /\ Cardinality(Unterminated(script)) = 1
     /\ PlainScript(script))
    => xml_content = ExpectedInserts(SelectSeq(script, IsTerminated))

\* a field that is NULL in some letter case
IsNullWord(v) ==
    /\ Len(v) = 4
    /\ v[1] \in {"N", "n"} /\ v[2] \in {"U", "u"}
    /\ v[3] \in {"L", "l"} /\ v[4] \in {"L", "l"}

\* C5: a field that, trimmed and with its quotes stripped, is NULL in any
\* letter case (bare or quoted) yields a <column> without a value attribute;
\* every other field, the empty string included, yields one with a value.
C5_NullIsValueless ==
    ppc = "columns" =>
        /\ Len(column_xml) = Len(result)
        /\ \A i \in 1..Len(result) :
              /\ column_xml[i].has_value = ~IsNullWord(result[i])
              /\ column_xml[i].has_value =>
                    column_xml[i].value = escape_xml_chars(result[i])

C5_Witness ==
    /\ ppc = "columns"
    /\ \E i \in 1..Len(result) :
          /\ ~column_xml[i].has_value
          /\ values_list[i][1] = "'"
          /\ result[i] = NULL_LOWER
    /\ \E i \in 1..Len(result) : column_xml[i].has_value /\ result[i] = <<>>

\* C6: escape_xml_chars round-trips through an XML parser, and its output
\* holds no raw < > " ' and no & that does not start one of the five entities.
C6_EscapeRoundTrips ==
    /\ epc = "decoded" => decoded = text
    /\ epc \in {"escaped", "decoded"} =>
          \A i \in 1..Len(escaped) :
              /\ escaped[i] \notin {"<", ">", "\"", "'"}
              /\ escaped[i] = "&" => EntityAt(escaped, i) # {}

C6_Witness ==
    /\ epc = "decoded"
    /\ \E i \in 1..Len(text) : StartsWith(text, i, AMP)
    /\ \E i \in 1..Len(text) : text[i] \in {"<", ">", "\"", "'"}
    /\ decoded = text

\* C7: the CSV writer tolerates later rows whose columns differ from the
\* header (the first row's columns): an extra field is dropped, a missing one
\* left empty, without an error, so every parsed row yields one CSV record.
C7_CsvLenientOnColumns ==
    (pc \in {"done", "failed_csv_write"} /\ output_csv_file /\ csv_data # <<>>) =>
        /\ pc = "done"
        /\ csv_file.written
        /\ csv_file.header = DictKeys(csv_data[1])
        /\ Len(csv_file.records) = Len(csv_data)
        /\ \A i \in 1..Len(csv_file.records) :
              csv_file.records[i] =
                  [h \in 1..Len(csv_file.header) |->
                      DictGet(csv_data[i], csv_file.header[h], <<>>)]

\* C8: with no statement matched (the cleaned input empty or not), a run that
\* completes has written an XML changeset with no <insert> children, and no
\* CSV file is ever created; a CSV file is written only when a row was parsed.
C8_EmptyInputNoCsv ==
    /\ (pc \notin {"start", "read"} /\ insert_statements = <<>>) => ~csv_file.written
    /\ (pc = "done" /\ insert_statements = <<>>) =>
          (xml_file.written /\ xml_file.inserts = <<>>)
    /\ csv_file.written => csv_data # <<>>

C8_Witness ==
    /\ pc = "done" /\ output_csv_file
    /\ sql_content # <<>> /\ insert_statements = <<>>
    /\ xml_file.written /\ ~csv_file.written

\* X with one layer of surrounding single quotes removed, if it has one
OneLayerStripped(v) ==
    IF Len(v) >= 2 /\ v[1] = "'" /\ v[Len(v)] = "'"
    THEN SubSeq(v, 2, Len(v) - 1)
    ELSE v

QuoteCount(v) == Cardinality({j \in 1..Len(v) : v[j] = "'"})

\* a complete string literal 'X' (its quotes pair up), or a token with no quote
WellQuoted(v) ==
    \/ QuoteCount(v) = 0
    \/ Len(v) >= 2 /\ v[1] = "'" /\ v[Len(v)] = "'" /\ QuoteCount(v) % 2 = 0

\* C9: the row parser's post-processing removes exactly one layer of
\* surrounding single quotes: a trimmed field 'X' is returned as X, quotes at
\* the ends of X kept, and a field without surrounding quotes is returned as
\* it is.  (Stated on the fields that are a complete literal or hold no quote.)
C9_OneQuoteLayerStripped ==
    ppc \in {"returned", "columns"} =>
        /\ Len(result) = Len(values_list)
        /\ \A i \in 1..Len(result) :
              WellQuoted(values_list[i]) => result[i] = OneLayerStripped(values_list[i])

Failed == {"failed_read", "failed_xml_open", "failed_csv_open", "failed_csv_write"}

\* C10 as stated: no output file is written until every requested
\* serialization has succeeded, so a run ends in DONE with all requested
\* outputs written or failed with no output file written.
C10_NoWriteBeforeAllSerialized ==
    /\ (xml_file.written /\ output_csv_file) => pc \in {"csv_built", "done"}
    /\ pc \in Failed => (~xml_file.written /\ ~csv_file.written)
    /\ pc = "done" => (xml_file.written /\ (output_csv_file => csv_file.written))

Rank(p) ==
    CASE p = "start"         -> 0
      [] p = "read"          -> 1
      [] p = "extracted"     -> 2
      [] p = "xml_generated" -> 3
      [] p = "xml_written"   -> 4
      [] p = "csv_built"     -> 5
      [] OTHER               -> 6

C10_Order ==
    \* a read failure aborts the run before any write
    /\ pc \in {"start", "read", "extracted", "xml_generated", "failed_read",
               "failed_xml_open"} => (~xml_file.written /\ ~csv_file.written)
    \* the XML file is written before the CSV is generated
    /\ pc \in {"xml_written", "csv_built", "failed_csv_open", "failed_csv_write", "done"} =>
          (xml_file.written /\ xml_file.inserts = xml_content)
    /\ pc \in {"xml_written", "csv_built", "failed_csv_open"} => ~csv_file.written
    /\ pc = "failed_csv_write" => csv_file.written
    \* DONE: the CSV file exists exactly when asked for and a row was parsed
    /\ pc = "done" => (csv_file.written <=> (output_csv_file /\ csv_data # <<>>))

\* C10, amended: a run goes START, read+clean, extract, serialize XML, write
\* the XML file, then (with a CSV path) build the CSV rows and write the CSV
\* file (only if a row was parsed), DONE, never back.  A read failure aborts
\* before any write; the XML file is written before CSV generation starts, so
\* a run that fails in the CSV step has already written the XML file; a run
\* that reaches DONE has written the XML file, and the CSV file exactly when a
\* CSV path was given and at least one row was parsed.
C10_XmlWrittenBeforeCsv ==
    /\ []C10_Order
    /\ [][Rank(pc') > Rank(pc)]_vars

C10_Witness ==
    pc = "failed_csv_open" /\ xml_file.written /\ ~csv_file.written

====
